---- MODULE Spec2Model ----
(***************************************************************************)
(* Model of the Windows Explorer thumbnail provider for .wiretuner files   *)
(* (tools/platform/explorer/preview_handler.cpp): the GetThumbnail         *)
(* pipeline of WireTunerThumbnailProvider, the cache directory it shares   *)
(* with the renderer processes it launches, those processes, and the       *)
(* reference counting of the provider and class factory objects.           *)
(*                                                                         *)
(* Strings are sequences of atoms: one atom per character where the code   *)
(* looks at characters (path separators, ';', '-', decimal digits), one    *)
(* atom for a literal the code only copies ("wiretuner.exe", ".png").      *)
(***************************************************************************)
EXTENDS Integers, Sequences, FiniteSets, TLC

VARIABLES
    pc,          \* per provider: position inside GetThumbnail ("none" = not constructed)
    m_filePath,  \* per provider: the path given to Initialize
    cx,          \* per provider: requested size of the current call
    phbmp,       \* per provider: *phbmp, NullBitmap or an image
    ret,         \* per provider: HRESULT returned by GetThumbnail, "none" while running
    hr,          \* per provider: HRESULT of GenerateThumbnail, "none" before it returns
    fileInfo,    \* per provider: ftLastWriteTime read by GetFileAttributesExW, or NoFileInfo
    outPath,     \* per provider: the cache location derived for this call
    cliPath,     \* per provider: result of FindWireTunerCLI
    env,         \* per provider: the environment FindWireTunerCLI looked at, or NoEnv
    pi,          \* per provider: the launched child and its two handles, or NoPi
    waitResult,  \* per provider: result of WaitForSingleObject, or "none"
    exitCode,    \* per provider: exit code variable of GenerateThumbnail
    trace,       \* per provider: the steps the current call has performed, in order
    cache,       \* files of the cache directory: location -> content
    dirExists,   \* whether <temp>\wiretuner-thumbnails\ exists
    orphans,     \* renderer processes still running after their handles were closed
    nreq,        \* number of GetThumbnail calls made so far
    m_refCount,  \* per COM object: its reference count
    life,        \* per COM object: "none" (not constructed), "alive" or "deleted"
    deletes,     \* per COM object: how many times "delete this" ran on it
    held,        \* per client thread and object: references the client holds
    rel          \* per client thread: its Release between the decrement and the test

locals == <<m_filePath, cx, phbmp, ret, hr, fileInfo, outPath, cliPath, env, pi,
            waitResult, exitCode, trace>>
comVars == <<m_refCount, life, deletes, held, rel>>
vars == <<pc, m_filePath, cx, phbmp, ret, hr, fileInfo, outPath, cliPath, env, pi,
          waitResult, exitCode, trace, cache, dirExists, orphans, nreq,
          m_refCount, life, deletes, held, rel>>

(***************************************************************************)
(* Bounds of the model.                                                    *)
(***************************************************************************)
\* GetThumbnail calls per run
MaxRequests == 2
\* a DWORD ranges over 0 .. DWordRange-1 (the 32-bit word, scaled down)
DWordRange == 4
\* longest PATH value, in atoms, the locator is run on
MaxPathLen == 3

\* largest thumbnail size asked of the placeholder
MaxCx == 16


\* largest reference count an object is taken to
MaxRefs == 2

Providers == {"p1", "p2"}

\* the class factory object, COM objects, and the client threads that hold references
Factories == {"f1"}
Objects == Providers \cup Factories
Clients == {"t1", "t2"}

(***************************************************************************)
(* Values.                                                                 *)
(***************************************************************************)
\* the files the pipeline runs are asked about: the same name in two directories
SamplePaths == { <<"x", "\\", "a">>, <<"y", "\\", "a">> }

\* file paths handed to Initialize: those, and a file whose name ends in "-<digit>"
Paths == { <<"x", "\\", "a">>, <<"y", "\\", "a">>, <<"x", "\\", "a", "-", "1">> }

\* requested sizes, one and two decimal digits
Sizes == {1, 2, 12}

\* FILETIME values
FileTimes == [dwLowDateTime : 0 .. DWordRange - 1, dwHighDateTime : 0 .. DWordRange - 1]

\* the last-write times the files of the pipeline runs take
SampleTimes == { ft \in FileTimes : ft.dwLowDateTime = 1 /\ ft.dwHighDateTime \in {0, 1} }

\* the sizes the pipeline runs ask for
SampleSizes == {1, 12}

\* results of WaitForSingleObject
WAIT_OBJECT_0 == "WAIT_OBJECT_0"
WAIT_TIMEOUT == "WAIT_TIMEOUT"

\* what GetExitCodeProcess reads for a process that has not exited
STILL_ACTIVE == 259

\* exit codes of the renderer
ExitCodes == {0, 1}

\* values of variables that hold nothing yet
NoFileInfo == [unread |-> TRUE]
NoEnv == [unread |-> TRUE]
NoProc == [status |-> "none"]
NoRelease == [obj |-> "none", count |-> -1]
NoPi == [proc |-> NoProc, hProcess |-> "none", hThread |-> "none"]

\* *phbmp = NULL
NullBitmap == [kind |-> "NULL"]

\* content of a cache file that is no image
Corrupt == [corrupt |-> TRUE]

TempPath == <<"T", "\\">>

Append2(s, a, b) == Append(Append(s, a), b)

(***************************************************************************)
(* swprintf_s conversions %llu and %u: decimal digits, most significant    *)
(* first.                                                                  *)
(***************************************************************************)
DigitChar(d) == <<"0", "1", "2", "3", "4", "5", "6", "7", "8", "9">>[d + 1]

RECURSIVE Decimal(_)
Decimal(n) == IF n < 10 THEN <<DigitChar(n)>>
              ELSE Append(Decimal(n \div 10), DigitChar(n % 10))

(***************************************************************************)
(* PathFindFileNameW: the part of the path after its last backslash.       *)
(***************************************************************************)
PathFindFileNameW(path) ==
    LET seps == { i \in 1 .. Len(path) - 1 : path[i] = "\\" }
        last == IF seps = {} THEN 0 ELSE CHOOSE i \in seps : \A j \in seps : j <= i
    IN  SubSeq(path, last + 1, Len(path))

(***************************************************************************)
(* ULARGE_INTEGER modTime: LowPart and HighPart combined into QuadPart.    *)
(***************************************************************************)
QuadPart_LowOnly(ft) == ft.dwLowDateTime

QuadPart(ft) == ft.dwHighDateTime * DWordRange + ft.dwLowDateTime

(***************************************************************************)
(* The cache key "%s-%llu-%u.png" and the cache location.                  *)
(***************************************************************************)
CacheKey_NoSeparator(path, ft, n) ==
    PathFindFileNameW(path) \o <<"-">> \o Decimal(QuadPart(ft)) \o Decimal(n) \o <<".png">>

CacheKey_NoSize(path, ft, n) ==
    PathFindFileNameW(path) \o <<"-">> \o Decimal(QuadPart(ft)) \o <<".png">>

CacheKey(path, ft, n) ==
    PathFindFileNameW(path) \o <<"-">> \o Decimal(QuadPart(ft)) \o <<"-">>
        \o Decimal(n) \o <<".png">>

CacheDir == TempPath \o <<"wiretuner-thumbnails", "\\">>

OutPath(path, ft, n) == CacheDir \o CacheKey(path, ft, n)

(***************************************************************************)
(* FindWireTunerCLI.  An environment e is the set e.exists of files that   *)
(* PathFileExistsW finds and the value e.PATH of the PATH variable (<<>>   *)
(* when GetEnvironmentVariableW returns 0).                                *)
(***************************************************************************)
SearchPath1 == <<"C:", "\\", "Program Files", "\\", "WireTuner", "\\", "wiretuner.exe">>
SearchPath2 == <<"C:", "\\", "Program Files (x86)", "\\", "WireTuner", "\\", "wiretuner.exe">>
searchPaths == <<SearchPath1, SearchPath2>>

ExeIn(dir) == dir \o <<"\\", "wiretuner.exe">>

\* path.find(L';'): the position of the first ';', 0 for npos
FindSemicolon(path) ==
    LET at == { i \in 1 .. Len(path) : path[i] = ";" }
    IN  IF at = {} THEN 0 ELSE CHOOSE i \in at : \A j \in at : i <= j

RECURSIVE ScanPath(_, _)
ScanPath(exists, path) ==
    LET pos == FindSemicolon(path)
    IN  IF pos = 0 THEN <<>>
        ELSE LET exePath == ExeIn(SubSeq(path, 1, pos - 1))
             IN  IF exePath \in exists THEN exePath
                 ELSE ScanPath(exists, SubSeq(path, pos + 1, Len(path)))

FindWireTunerCLI(e) ==
    IF searchPaths[1] \in e.exists THEN searchPaths[1]
    ELSE IF searchPaths[2] \in e.exists THEN searchPaths[2]
    ELSE IF Len(e.PATH) > 0 THEN ScanPath(e.exists, e.PATH)
    ELSE <<>>

(***************************************************************************)
(* GeneratePlaceholder: the bitmap it draws.                               *)
(***************************************************************************)
PlaceholderImage_HalfDiameter(n) ==
    LET margin == n \div 4
    IN  [kind |-> "placeholder", width |-> n, height |-> n,
         margin |-> margin, diameter |-> n \div 2]

PlaceholderImage(n) ==
    LET margin == n \div 4
    IN  [kind |-> "placeholder", width |-> n, height |-> n,
         margin |-> margin, diameter |-> n - margin * 2]

\* the bitmap decoded from a cache file
FileImage(content) == [kind |-> "file", content |-> content]

\* Bitmap::FromFile succeeds on the file at location path
Decodes(path) == path \in DOMAIN cache /\ cache[path] # Corrupt

(***************************************************************************)
(* The result of the launch, wait and exit code: lines 192-196.            *)
(***************************************************************************)
InvokeSucceeded_And(w, code) == ~(w # WAIT_OBJECT_0 /\ code # 0)

InvokeSucceeded(w, code) == ~(w # WAIT_OBJECT_0 \/ code # 0)

(***************************************************************************)
(* The environments the pipeline runs meet: no renderer anywhere, a        *)
(* renderer in the one directory of PATH.                                  *)
(***************************************************************************)
SampleEnvs ==
    { [exists |-> {}, PATH |-> <<"d", ";">>],
      [exists |-> {ExeIn(<<"d">>)}, PATH |-> <<"d", ";">>] }

(***************************************************************************)
(* State after construction of the providers in ps.                        *)
(***************************************************************************)
InitOf(ps) ==
    /\ pc = [p \in Providers |-> IF p \in ps THEN "idle" ELSE "none"]
    /\ m_filePath = [p \in Providers |-> <<>>]
    /\ cx = [p \in Providers |-> 0]
    /\ phbmp = [p \in Providers |-> NullBitmap]
    /\ ret = [p \in Providers |-> "none"]
    /\ hr = [p \in Providers |-> "none"]
    /\ fileInfo = [p \in Providers |-> NoFileInfo]
    /\ outPath = [p \in Providers |-> <<>>]
    /\ cliPath = [p \in Providers |-> <<>>]
    /\ env = [p \in Providers |-> NoEnv]
    /\ pi = [p \in Providers |-> NoPi]
    /\ waitResult = [p \in Providers |-> "none"]
    /\ exitCode = [p \in Providers |-> -1]
    /\ trace = [p \in Providers |-> <<>>]
    /\ cache = <<>>
    /\ dirExists = FALSE
    /\ orphans = {}
    /\ nreq = 0
    /\ m_refCount = [o \in Objects |-> IF o \in ps THEN 1 ELSE 0]
    /\ life = [o \in Objects |-> IF o \in ps THEN "alive" ELSE "none"]
    /\ deletes = [o \in Objects |-> 0]
    /\ held = [t \in Clients |-> [o \in Objects |-> IF t = "t1" /\ o \in ps THEN 1 ELSE 0]]
    /\ rel = [t \in Clients |-> NoRelease]

Init == InitOf({"p1"})

Ev(op, res) == [op |-> op, res |-> res]
Log(p, op, res) == trace' = [trace EXCEPT ![p] = Append(@, Ev(op, res))]

(***************************************************************************)
(* IInitializeWithFile::Initialize                                         *)
(***************************************************************************)
Initialize(p, path) ==
    /\ pc[p] = "idle"
    /\ m_filePath' = [m_filePath EXCEPT ![p] = path]
    /\ UNCHANGED comVars
    /\ UNCHANGED <<pc, cx, phbmp, ret, hr, fileInfo, outPath, cliPath, env, pi,
                   waitResult, exitCode, trace, cache, dirExists, orphans, nreq>>

(***************************************************************************)
(* GetThumbnail, entry: lines 93-99.                                       *)
(***************************************************************************)
GetThumbnail(p, n) ==
    /\ pc[p] = "idle"
    /\ nreq < MaxRequests
    /\ nreq' = nreq + 1
    /\ cx' = [cx EXCEPT ![p] = n]
    /\ phbmp' = [phbmp EXCEPT ![p] = NullBitmap]
    /\ pc' = [pc EXCEPT ![p] = "mkdir"]
    /\ UNCHANGED comVars
    /\ UNCHANGED <<m_filePath, ret, hr, fileInfo, outPath, cliPath, env, pi, waitResult,
                   exitCode, trace, cache, dirExists, orphans>>

(***************************************************************************)
(* GenerateThumbnail, lines 129-134: GetTempPathW and CreateDirectoryW,    *)
(* whose result is ignored.  created: the directory could be created.      *)
(***************************************************************************)
CreateCacheDir_Checked(p, created) ==
    /\ pc[p] = "mkdir"
    /\ dirExists' = (dirExists \/ created)
    /\ Log(p, "mkdir", IF dirExists THEN "exists" ELSE IF created THEN "created" ELSE "failed")
    /\ IF dirExists \/ created
       THEN /\ pc' = [pc EXCEPT ![p] = "attrs"]
            /\ UNCHANGED hr
       ELSE /\ pc' = [pc EXCEPT ![p] = "placeholder"]
            /\ hr' = [hr EXCEPT ![p] = "E_FAIL"]
    /\ UNCHANGED comVars
    /\ UNCHANGED <<m_filePath, cx, phbmp, ret, fileInfo, outPath, cliPath, env, pi,
                   waitResult, exitCode, cache, orphans, nreq>>

CreateCacheDir(p, created) ==
    /\ pc[p] = "mkdir"
    /\ dirExists' = (dirExists \/ created)
    /\ Log(p, "mkdir", IF dirExists THEN "exists" ELSE IF created THEN "created" ELSE "failed")
    /\ pc' = [pc EXCEPT ![p] = "attrs"]
    /\ UNCHANGED comVars
    /\ UNCHANGED <<m_filePath, cx, phbmp, ret, hr, fileInfo, outPath, cliPath, env, pi,
                   waitResult, exitCode, cache, orphans, nreq>>

(***************************************************************************)
(* GenerateThumbnail, lines 136-152: GetFileAttributesExW and the cache    *)
(* location.  r: the last-write time read, or NoFileInfo when the call     *)
(* fails; it fails on the empty path of a provider never initialized.      *)
(***************************************************************************)
ReadIdentity(p, r) ==
    /\ pc[p] = "attrs"
    /\ m_filePath[p] = <<>> => r = NoFileInfo
    /\ IF r = NoFileInfo
       THEN /\ hr' = [hr EXCEPT ![p] = "E_FAIL"]
            /\ pc' = [pc EXCEPT ![p] = "placeholder"]
            /\ Log(p, "identity", "failed")
            /\ UNCHANGED <<fileInfo, outPath>>
       ELSE /\ fileInfo' = [fileInfo EXCEPT ![p] = r]
            /\ outPath' = [outPath EXCEPT ![p] = OutPath(m_filePath[p], r, cx[p])]
            /\ pc' = [pc EXCEPT ![p] = "exists"]
            /\ Log(p, "identity", "ok")
            /\ UNCHANGED hr
    /\ UNCHANGED comVars
    /\ UNCHANGED <<m_filePath, cx, phbmp, ret, cliPath, env, pi, waitResult, exitCode,
                   cache, dirExists, orphans, nreq>>

(***************************************************************************)
(* GenerateThumbnail, lines 154-157: PathFileExistsW on the cache location.*)
(***************************************************************************)
Lookup(p) ==
    /\ pc[p] = "exists"
    /\ IF outPath[p] \in DOMAIN cache
       THEN /\ hr' = [hr EXCEPT ![p] = "S_OK"]
            /\ pc' = [pc EXCEPT ![p] = "load"]
            /\ Log(p, "lookup", "hit")
       ELSE /\ pc' = [pc EXCEPT ![p] = "find"]
            /\ Log(p, "lookup", "miss")
            /\ UNCHANGED hr
    /\ UNCHANGED comVars
    /\ UNCHANGED <<m_filePath, cx, phbmp, ret, fileInfo, outPath, cliPath, env, pi,
                   waitResult, exitCode, cache, dirExists, orphans, nreq>>

(***************************************************************************)
(* GenerateThumbnail, lines 159-163: FindWireTunerCLI in environment e.    *)
(***************************************************************************)
Locate(p, e) ==
    /\ pc[p] = "find"
    /\ env' = [env EXCEPT ![p] = e]
    /\ cliPath' = [cliPath EXCEPT ![p] = FindWireTunerCLI(e)]
    /\ IF FindWireTunerCLI(e) = <<>>
       THEN /\ hr' = [hr EXCEPT ![p] = "E_FAIL"]
            /\ pc' = [pc EXCEPT ![p] = "placeholder"]
            /\ Log(p, "locate", "notfound")
       ELSE /\ pc' = [pc EXCEPT ![p] = "launch"]
            /\ Log(p, "locate", "found")
            /\ UNCHANGED hr
    /\ UNCHANGED comVars
    /\ UNCHANGED <<m_filePath, cx, phbmp, ret, fileInfo, outPath, pi, waitResult,
                   exitCode, cache, dirExists, orphans, nreq>>

(***************************************************************************)
(* GenerateThumbnail, lines 165-182: CreateProcessW.  ok: its result.      *)
(***************************************************************************)
Launch(p, ok) ==
    /\ pc[p] = "launch"
    /\ IF ok
       THEN /\ pi' = [pi EXCEPT ![p] =
                        [proc |-> [status |-> "running", code |-> STILL_ACTIVE,
                                   dest |-> outPath[p], src |-> m_filePath[p],
                                   ft |-> fileInfo[p], size |-> cx[p]],
                         hProcess |-> "open", hThread |-> "open"]]
            /\ pc' = [pc EXCEPT ![p] = "wait"]
            /\ Log(p, "launch", "ok")
            /\ UNCHANGED hr
       ELSE /\ hr' = [hr EXCEPT ![p] = "E_FAIL"]
            /\ pc' = [pc EXCEPT ![p] = "placeholder"]
            /\ Log(p, "launch", "failed")
            /\ UNCHANGED pi
    /\ UNCHANGED comVars
    /\ UNCHANGED <<m_filePath, cx, phbmp, ret, fileInfo, outPath, cliPath, env,
                   waitResult, exitCode, cache, dirExists, orphans, nreq>>

(***************************************************************************)
(* GenerateThumbnail, line 185: WaitForSingleObject(pi.hProcess, 5000).    *)
(* It returns WAIT_OBJECT_0 once the child has exited, and WAIT_TIMEOUT    *)
(* when the 5000 ms pass while the child runs.                             *)
(***************************************************************************)
Wait_RetryOnce(p) ==
    /\ pc[p] = "wait"
    /\ pi[p].hProcess = "open"
    /\ IF pi[p].proc.status = "exited"
       THEN /\ waitResult' = [waitResult EXCEPT ![p] = WAIT_OBJECT_0]
            /\ Log(p, "wait", "exited")
       ELSE /\ waitResult' = [waitResult EXCEPT ![p] = WAIT_TIMEOUT]
            /\ Log(p, "wait", "expired")
    /\ pc' = [pc EXCEPT ![p] = IF pi[p].proc.status = "running" /\ trace[p][Len(trace[p])].op # "wait"
                                THEN "wait" ELSE "exitcode"]
    /\ UNCHANGED comVars
    /\ UNCHANGED <<m_filePath, cx, phbmp, ret, hr, fileInfo, outPath, cliPath, env, pi,
                   exitCode, cache, dirExists, orphans, nreq>>

Wait(p) ==
    /\ pc[p] = "wait"
    /\ pi[p].hProcess = "open"
    /\ IF pi[p].proc.status = "exited"
       THEN /\ waitResult' = [waitResult EXCEPT ![p] = WAIT_OBJECT_0]
            /\ Log(p, "wait", "exited")
       ELSE /\ waitResult' = [waitResult EXCEPT ![p] = WAIT_TIMEOUT]
            /\ Log(p, "wait", "expired")
    /\ pc' = [pc EXCEPT ![p] = "exitcode"]
    /\ UNCHANGED comVars
    /\ UNCHANGED <<m_filePath, cx, phbmp, ret, hr, fileInfo, outPath, cliPath, env, pi,
                   exitCode, cache, dirExists, orphans, nreq>>

(***************************************************************************)
(* GenerateThumbnail, lines 186-187: GetExitCodeProcess.                   *)
(***************************************************************************)
GetExitCode(p) ==
    /\ pc[p] = "exitcode"
    /\ pi[p].hProcess = "open"
    /\ exitCode' = [exitCode EXCEPT ![p] = pi[p].proc.code]
    /\ Log(p, "exitcode", IF pi[p].proc.status = "running" THEN "running"
                           ELSE IF pi[p].proc.code = 0 THEN "zero" ELSE "nonzero")
    /\ pc' = [pc EXCEPT ![p] = "close"]
    /\ UNCHANGED comVars
    /\ UNCHANGED <<m_filePath, cx, phbmp, ret, hr, fileInfo, outPath, cliPath, env, pi,
                   waitResult, cache, dirExists, orphans, nreq>>

(***************************************************************************)
(* GenerateThumbnail, lines 189-196: both handles are closed and the       *)
(* result is reported.  A child that still runs goes on running.           *)
(***************************************************************************)
CloseAndReport_LeakOnFailure(p) ==
    /\ pc[p] = "close"
    /\ pi[p].hProcess = "open" /\ pi[p].hThread = "open"
    /\ IF InvokeSucceeded(waitResult[p], exitCode[p])
       THEN /\ pi' = [pi EXCEPT ![p] =
                        [proc |-> NoProc, hProcess |-> "closed", hThread |-> "closed"]]
            /\ trace' = [trace EXCEPT ![p] =
                           Append2(@, Ev("close", "hProcess"), Ev("close", "hThread"))]
            /\ hr' = [hr EXCEPT ![p] = "S_OK"]
            /\ pc' = [pc EXCEPT ![p] = "load"]
            /\ UNCHANGED orphans
       ELSE /\ pi' = [pi EXCEPT ![p].proc = NoProc]
            /\ orphans' = IF pi[p].proc.status = "running"
                          THEN orphans \cup {pi[p].proc} ELSE orphans
            /\ hr' = [hr EXCEPT ![p] = "E_FAIL"]
            /\ pc' = [pc EXCEPT ![p] = "placeholder"]
            /\ UNCHANGED trace
    /\ UNCHANGED comVars
    /\ UNCHANGED <<m_filePath, cx, phbmp, ret, fileInfo, outPath, cliPath, env,
                   waitResult, exitCode, cache, dirExists, nreq>>

CloseAndReport(p) ==
    /\ pc[p] = "close"
    /\ pi[p].hProcess = "open" /\ pi[p].hThread = "open"
    /\ pi' = [pi EXCEPT ![p] = [proc |-> NoProc, hProcess |-> "closed", hThread |-> "closed"]]
    /\ orphans' = IF pi[p].proc.status = "running" THEN orphans \cup {pi[p].proc} ELSE orphans
    /\ trace' = [trace EXCEPT ![p] =
                   Append2(@, Ev("close", "hProcess"), Ev("close", "hThread"))]
    /\ IF InvokeSucceeded(waitResult[p], exitCode[p])
       THEN /\ hr' = [hr EXCEPT ![p] = "S_OK"]
            /\ pc' = [pc EXCEPT ![p] = "load"]
       ELSE /\ hr' = [hr EXCEPT ![p] = "E_FAIL"]
            /\ pc' = [pc EXCEPT ![p] = "placeholder"]
    /\ UNCHANGED comVars
    /\ UNCHANGED <<m_filePath, cx, phbmp, ret, fileInfo, outPath, cliPath, env,
                   waitResult, exitCode, cache, dirExists, nreq>>

(***************************************************************************)
(* GetThumbnail, lines 105-117: Bitmap::FromFile, then GetHBITMAP.         *)
(* converted: GetHBITMAP produced a bitmap.                                *)
(***************************************************************************)
LoadBitmap(p, converted) ==
    /\ pc[p] = "load"
    /\ IF ~Decodes(outPath[p])
       THEN /\ pc' = [pc EXCEPT ![p] = "placeholder"]
            /\ Log(p, "decode", "failed")
            /\ UNCHANGED <<phbmp, ret>>
       ELSE /\ phbmp' = [phbmp EXCEPT ![p] =
                           IF converted THEN FileImage(cache[outPath[p]]) ELSE @]
            /\ ret' = [ret EXCEPT ![p] = IF converted THEN "S_OK" ELSE "E_FAIL"]
            /\ pc' = [pc EXCEPT ![p] = "done"]
            /\ trace' = [trace EXCEPT ![p] =
                           Append2(@, Ev("decode", "ok"),
                                   Ev("convert", IF converted THEN "ok" ELSE "failed"))]
    /\ UNCHANGED comVars
    /\ UNCHANGED <<m_filePath, cx, hr, fileInfo, outPath, cliPath, env, pi, waitResult,
                   exitCode, cache, dirExists, orphans, nreq>>

(***************************************************************************)
(* GeneratePlaceholder, lines 238-257.  converted: GetHBITMAP produced a   *)
(* bitmap.                                                                 *)
(***************************************************************************)
GeneratePlaceholder(p, converted) ==
    /\ pc[p] = "placeholder"
    /\ phbmp' = [phbmp EXCEPT ![p] = IF converted THEN PlaceholderImage(cx[p]) ELSE @]
    /\ ret' = [ret EXCEPT ![p] = IF converted THEN "S_OK" ELSE "E_FAIL"]
    /\ pc' = [pc EXCEPT ![p] = "done"]
    /\ Log(p, "placeholder", IF converted THEN "ok" ELSE "failed")
    /\ UNCHANGED comVars
    /\ UNCHANGED <<m_filePath, cx, hr, fileInfo, outPath, cliPath, env, pi, waitResult,
                   exitCode, cache, dirExists, orphans, nreq>>

(***************************************************************************)
(* GetThumbnail returns to the caller, who takes the bitmap and the        *)
(* result; the variables of the call are gone.                            *)
(***************************************************************************)
Return(p) ==
    /\ pc[p] = "done"
    /\ pc' = [pc EXCEPT ![p] = "idle"]
    /\ cx' = [cx EXCEPT ![p] = 0]
    /\ phbmp' = [phbmp EXCEPT ![p] = NullBitmap]
    /\ ret' = [ret EXCEPT ![p] = "none"]
    /\ hr' = [hr EXCEPT ![p] = "none"]
    /\ fileInfo' = [fileInfo EXCEPT ![p] = NoFileInfo]
    /\ outPath' = [outPath EXCEPT ![p] = <<>>]
    /\ cliPath' = [cliPath EXCEPT ![p] = <<>>]
    /\ env' = [env EXCEPT ![p] = NoEnv]
    /\ pi' = [pi EXCEPT ![p] = NoPi]
    /\ waitResult' = [waitResult EXCEPT ![p] = "none"]
    /\ exitCode' = [exitCode EXCEPT ![p] = -1]
    /\ trace' = [trace EXCEPT ![p] = <<>>]
    /\ UNCHANGED comVars
    /\ UNCHANGED <<m_filePath, cache, dirExists, orphans, nreq>>

(***************************************************************************)
(* The renderer process: "wiretuner.exe --generate-thumbnail <src> <dest>  *)
(* --size <n>".  While it runs it may write its destination file, as an    *)
(* image or as something that does not decode; it may exit with any code;  *)
(* it may never exit.                                                      *)
(***************************************************************************)
Png(proc) == [src |-> proc.src, ft |-> proc.ft, size |-> proc.size]

WriteFile(path, content) ==
    cache' = [q \in DOMAIN cache \cup {path} |-> IF q = path THEN content ELSE cache[q]]

RendererWrite(proc, asImage) ==
    LET content == IF asImage THEN Png(proc) ELSE Corrupt
    IN  /\ dirExists
        /\ IF proc.dest \in DOMAIN cache THEN cache[proc.dest] # content ELSE TRUE
        /\ WriteFile(proc.dest, content)

ChildWrite(p, asImage) ==
    /\ pi[p].proc.status = "running"
    /\ RendererWrite(pi[p].proc, asImage)
    /\ UNCHANGED comVars
    /\ UNCHANGED <<pc, locals, dirExists, orphans, nreq>>

ChildExit(p, code) ==
    /\ pi[p].proc.status = "running"
    /\ pi' = [pi EXCEPT ![p].proc.status = "exited", ![p].proc.code = code]
    /\ UNCHANGED comVars
    /\ UNCHANGED <<pc, m_filePath, cx, phbmp, ret, hr, fileInfo, outPath, cliPath, env,
                   waitResult, exitCode, trace, cache, dirExists, orphans, nreq>>

OrphanWrite(o, asImage) ==
    /\ o \in orphans
    /\ RendererWrite(o, asImage)
    /\ UNCHANGED comVars
    /\ UNCHANGED <<pc, locals, dirExists, orphans, nreq>>

OrphanExit(o) ==
    /\ o \in orphans
    /\ orphans' = orphans \ {o}
    /\ UNCHANGED comVars
    /\ UNCHANGED <<pc, locals, cache, dirExists, nreq>>

(***************************************************************************)
(* The pipeline: one provider, its calls one after another.                *)
(***************************************************************************)
Next ==
    \/ \E p \in Providers, path \in SamplePaths : Initialize(p, path)
    \/ \E p \in Providers, n \in SampleSizes : GetThumbnail(p, n)
    \/ \E p \in Providers, created \in BOOLEAN : CreateCacheDir(p, created)
    \/ \E p \in Providers, r \in SampleTimes \cup {NoFileInfo} : ReadIdentity(p, r)
    \/ \E p \in Providers : Lookup(p)
    \/ \E p \in Providers, e \in SampleEnvs : Locate(p, e)
    \/ \E p \in Providers, ok \in BOOLEAN : Launch(p, ok)
    \/ \E p \in Providers : Wait(p)
    \/ \E p \in Providers : GetExitCode(p)
    \/ \E p \in Providers : CloseAndReport(p)
    \/ \E p \in Providers, converted \in BOOLEAN : LoadBitmap(p, converted)
    \/ \E p \in Providers, converted \in BOOLEAN : GeneratePlaceholder(p, converted)
    \/ \E p \in Providers : Return(p)
    \/ \E p \in Providers, asImage \in BOOLEAN : ChildWrite(p, asImage)
    \/ \E p \in Providers, code \in ExitCodes : ChildExit(p, code)
    \/ \E o \in orphans, asImage \in BOOLEAN : OrphanWrite(o, asImage)
    \/ \E o \in orphans : OrphanExit(o)

Spec == Init /\ [][Next]_vars

(***************************************************************************)
(* The thread inside GetThumbnail keeps running: every call made is either *)
(* already computing or in a system call that returns (the one wait is     *)
(* bounded by its timeout).  Nothing is assumed of the renderer processes. *)
(***************************************************************************)
Running(p) ==
    \/ \E created \in BOOLEAN : CreateCacheDir(p, created)
    \/ \E r \in SampleTimes \cup {NoFileInfo} : ReadIdentity(p, r)
    \/ Lookup(p)
    \/ \E e \in SampleEnvs : Locate(p, e)
    \/ \E ok \in BOOLEAN : Launch(p, ok)
    \/ Wait(p)
    \/ GetExitCode(p)
    \/ CloseAndReport(p)
    \/ \E converted \in BOOLEAN : LoadBitmap(p, converted)
    \/ \E converted \in BOOLEAN : GeneratePlaceholder(p, converted)

FairSpec == Spec /\ \A p \in Providers : WF_vars(Running(p))

(***************************************************************************)
(* The cache key derivation on its own: two providers, every path, size    *)
(* and last-write time, up to the derivation of the cache location.        *)
(***************************************************************************)
InitKey == InitOf(Providers)

NextKey ==
    \/ \E p \in Providers, path \in Paths : Initialize(p, path)
    \/ \E p \in Providers, n \in Sizes : GetThumbnail(p, n)
    \/ \E p \in Providers, created \in BOOLEAN : CreateCacheDir(p, created)
    \/ \E p \in Providers, r \in FileTimes \cup {NoFileInfo} : ReadIdentity(p, r)

SpecKey == InitKey /\ [][NextKey]_vars

(***************************************************************************)
(* The renderer locator on its own: one provider, up to FindWireTunerCLI,  *)
(* in every environment made of the files of Exes and a PATH value of at   *)
(* most MaxPathLen atoms.                                                  *)
(***************************************************************************)
PathAtoms == {"d", "e", ";"}
PathValues == UNION { [1 .. k -> PathAtoms] : k \in 0 .. MaxPathLen }
Exes == {SearchPath1, SearchPath2, ExeIn(<<"d">>), ExeIn(<<"e">>)}
AllEnvs == [exists : SUBSET Exes, PATH : PathValues]

NextLocate ==
    \/ \E path \in SamplePaths : Initialize("p1", path)
    \/ \E n \in SampleSizes : GetThumbnail("p1", n)
    \/ CreateCacheDir("p1", TRUE)
    \/ \E r \in SampleTimes : ReadIdentity("p1", r)
    \/ Lookup("p1")
    \/ \E e \in AllEnvs : Locate("p1", e)

SpecLocate == Init /\ [][NextLocate]_vars

(***************************************************************************)
(* What the current call of provider p has done.                           *)
(***************************************************************************)
Did(p, op, res) == \E i \in 1 .. Len(trace[p]) : trace[p][i] = Ev(op, res)
DidOp(p, op) == \E i \in 1 .. Len(trace[p]) : trace[p][i].op = op
Times(p, op) == Cardinality({ i \in 1 .. Len(trace[p]) : trace[p][i].op = op })
Returning(p) == pc[p] = "done"

(***************************************************************************)
(* C1: every call of GetThumbnail returns S_OK with a bitmap, whatever     *)
(* the outcome of its internal steps.                                      *)
(***************************************************************************)
C1_AlwaysSucceeds ==
    \A p \in Providers : Returning(p) => ret[p] = "S_OK" /\ phbmp[p] # NullBitmap

(***************************************************************************)
(* C2: a call in which the identity read failed, or no renderer was found, *)
(* or the launch failed, or the wait expired, or the child exited nonzero, *)
(* or the file did not decode, returns the placeholder of the requested    *)
(* size.                                                                   *)
(***************************************************************************)
Degraded(p) ==
    \/ Did(p, "identity", "failed")
    \/ Did(p, "locate", "notfound")
    \/ Did(p, "launch", "failed")
    \/ Did(p, "wait", "expired")
    \/ Did(p, "wait", "exited") /\ Did(p, "exitcode", "nonzero")
    \/ Did(p, "decode", "failed")

C2_FallbackTotality ==
    \A p \in Providers :
        Returning(p) /\ Degraded(p) =>
            ret[p] = "S_OK" /\ phbmp[p] = PlaceholderImage(cx[p])

\* what remains of C2 when the conversion of the placeholder may fail: the call
\* ends in GeneratePlaceholder, and a bitmap it returns is that placeholder
FallbackReachesPlaceholder ==
    \A p \in Providers :
        Returning(p) /\ Degraded(p) =>
            /\ DidOp(p, "placeholder")
            /\ phbmp[p] \in {NullBitmap, PlaceholderImage(cx[p])}
            /\ ret[p] = "S_OK" <=> phbmp[p] # NullBitmap

(***************************************************************************)
(* C3: a call that finds a file at its cache location and decodes it       *)
(* returns that image, and neither looks for the renderer nor launches it. *)
(***************************************************************************)
C3_CacheHitSkipsInvocation ==
    \A p \in Providers :
        Returning(p) /\ Did(p, "lookup", "hit") /\ Did(p, "decode", "ok") =>
            /\ ret[p] = "S_OK"
            /\ phbmp[p].kind = "file"
            /\ ~DidOp(p, "locate")
            /\ ~DidOp(p, "launch")

\* what remains of C3 when the conversion of the decoded image may fail
CacheHitNeverInvokes ==
    \A p \in Providers :
        Did(p, "lookup", "hit") => ~DidOp(p, "locate") /\ ~DidOp(p, "launch")

(***************************************************************************)
(* C4: a call whose cache file does not decode goes on as a miss: it looks *)
(* for the renderer in that same call.                                     *)
(***************************************************************************)
C4_DecodeFailureContinues ==
    \A p \in Providers :
        Returning(p) /\ Did(p, "lookup", "hit") /\ Did(p, "decode", "failed") =>
            DidOp(p, "locate")

(***************************************************************************)
(* C5: a call never hits, and never returns the image of, a cache entry    *)
(* made for another file path, last-write time or size.                    *)
(***************************************************************************)
C5_HitOnlyOwnEntry ==
    \A p \in Providers :
        /\ pc[p] = "load" /\ Did(p, "lookup", "hit") /\ Decodes(outPath[p]) =>
               cache[outPath[p]] = [src |-> m_filePath[p], ft |-> fileInfo[p], size |-> cx[p]]
        /\ Returning(p) /\ phbmp[p].kind = "file" =>
               phbmp[p].content.src = m_filePath[p]

(***************************************************************************)
(* C6: for one path, a different last-write time or a different size gives *)
(* a different cache location: the location derived by a call differs from *)
(* the location of every renderer output made for the same path and        *)
(* another time or size, and an image a call returns from the cache was    *)
(* made for the time and the size of that call.                            *)
(***************************************************************************)
\* the renderer outputs there are or may come: who they were made for, and where
Rendered ==
    { [dest |-> f, src |-> cache[f].src, ft |-> cache[f].ft, size |-> cache[f].size] :
          f \in { g \in DOMAIN cache : cache[g] # Corrupt } }
    \cup { [dest |-> o.dest, src |-> o.src, ft |-> o.ft, size |-> o.size] : o \in orphans }

C6_Sensitivity ==
    \A p \in Providers :
        /\ fileInfo[p] # NoFileInfo =>
               \A r \in Rendered :
                   r.src = m_filePath[p] /\ (r.ft # fileInfo[p] \/ r.size # cx[p]) =>
                       r.dest # outPath[p]
        /\ Returning(p) /\ phbmp[p].kind = "file" =>
               phbmp[p].content.ft = fileInfo[p] /\ phbmp[p].content.size = cx[p]

\* the first part of C6 over every time and size, between the two providers of SpecKey
KeysDifferAcrossProviders ==
    \A p, q \in Providers :
        /\ fileInfo[p] # NoFileInfo /\ fileInfo[q] # NoFileInfo
        /\ m_filePath[p] = m_filePath[q]
        /\ fileInfo[p] # fileInfo[q] \/ cx[p] # cx[q]
        => outPath[p] # outPath[q]

\* a call for a path returns while the cache holds an image made for that path and
\* size at another last-write time
C6_Witness ==
    \E p \in Providers : \E r \in Rendered :
        /\ Returning(p) /\ fileInfo[p] # NoFileInfo
        /\ r.dest \in DOMAIN cache
        /\ r.src = m_filePath[p] /\ r.size = cx[p] /\ r.ft # fileInfo[p]
        /\ Did(p, "lookup", "miss")

(***************************************************************************)
(* C7: the cache location is <temp dir>\wiretuner-thumbnails\ followed by  *)
(* <base name>-<last-write time as an integer>-<size>.png, read back here  *)
(* from the derived string; and two derivations from the same base name,   *)
(* time and size give the same location.                                   *)
(***************************************************************************)
LastIndexOf(s, c) ==
    LET at == { i \in 1 .. Len(s) : s[i] = c }
    IN  IF at = {} THEN 0 ELSE CHOOSE i \in at : \A j \in at : j <= i

DecimalDigits == {"0", "1", "2", "3", "4", "5", "6", "7", "8", "9"}

IsDecimal(ds) ==
    /\ Len(ds) > 0
    /\ \A i \in 1 .. Len(ds) : ds[i] \in DecimalDigits
    /\ Len(ds) > 1 => ds[1] # "0"

RECURSIVE ParseDecimal(_)
ParseDecimal(ds) ==
    IF ds = <<>> THEN 0
    ELSE ParseDecimal(SubSeq(ds, 1, Len(ds) - 1)) * 10
             + (CHOOSE d \in 0 .. 9 : DigitChar(d) = ds[Len(ds)])

IsBaseNameOf(base, path) ==
    /\ Len(base) > 0 /\ Len(base) <= Len(path)
    /\ \A i \in 1 .. Len(base) : base[i] # "\\"
    /\ SubSeq(path, Len(path) - Len(base) + 1, Len(path)) = base
    /\ Len(base) < Len(path) => path[Len(path) - Len(base)] = "\\"

KeyFormat(p) ==
    LET out == outPath[p]
        key == SubSeq(out, 5, Len(out))
        body == SubSeq(key, 1, Len(key) - 1)
        i2 == LastIndexOf(body, "-")
        front == SubSeq(body, 1, i2 - 1)
        i1 == LastIndexOf(front, "-")
        sizeDigits == SubSeq(body, i2 + 1, Len(body))
        timeDigits == SubSeq(front, i1 + 1, Len(front))
        base == SubSeq(front, 1, i1 - 1)
    IN  /\ Len(out) > 5
        /\ SubSeq(out, 1, 4) = TempPath \o <<"wiretuner-thumbnails", "\\">>
        /\ key[Len(key)] = ".png"
        /\ i2 > 0 /\ i1 > 0
        /\ IsDecimal(sizeDigits) /\ ParseDecimal(sizeDigits) = cx[p]
        /\ IsDecimal(timeDigits)
        /\ ParseDecimal(timeDigits) =
               fileInfo[p].dwHighDateTime * DWordRange + fileInfo[p].dwLowDateTime
        /\ IsBaseNameOf(base, m_filePath[p])

SameBaseName(path1, path2) ==
    \E k \in 1 .. Len(path1) :
        LET base == SubSeq(path1, Len(path1) - k + 1, Len(path1))
        IN  IsBaseNameOf(base, path1) /\ IsBaseNameOf(base, path2)

C7_DeriveKey ==
    /\ \A p \in Providers : fileInfo[p] # NoFileInfo => KeyFormat(p)
    /\ \A p, q \in Providers :
           /\ fileInfo[p] # NoFileInfo /\ fileInfo[q] = fileInfo[p] /\ cx[q] = cx[p]
           /\ SameBaseName(m_filePath[p], m_filePath[q])
           => outPath[p] = outPath[q]

\* two providers, for files of the same name in different directories, have derived
\* the same location from a two-digit time and a two-digit size, one of them having
\* created the cache directory and the other having found it
C7_Witness ==
    \E p, q \in Providers :
        /\ m_filePath[p] # m_filePath[q]
        /\ fileInfo[p] # NoFileInfo /\ fileInfo[q] = fileInfo[p] /\ cx[q] = cx[p]
        /\ outPath[p] = outPath[q]
        /\ cx[p] >= 10
        /\ fileInfo[p].dwHighDateTime * DWordRange + fileInfo[p].dwLowDateTime >= 10
        /\ Did(p, "mkdir", "created") /\ Did(q, "mkdir", "exists")

(***************************************************************************)
(* C8: FindWireTunerCLI returns the first existing file of the sequence    *)
(* installation path 1, installation path 2, <dir>\wiretuner.exe for each  *)
(* directory of PATH from left to right, the last one included, and        *)
(* nothing only if none of them exists.                                    *)
(***************************************************************************)
RECURSIVE SplitPath(_)
SplitPath(path) ==
    LET pos == FindSemicolon(path)
    IN  IF pos = 0 THEN (IF path = <<>> THEN <<>> ELSE <<path>>)
        ELSE <<SubSeq(path, 1, pos - 1)>> \o SplitPath(SubSeq(path, pos + 1, Len(path)))

Candidates(e) ==
    LET dirs == SplitPath(e.PATH)
    IN  <<SearchPath1, SearchPath2>> \o [i \in 1 .. Len(dirs) |-> ExeIn(dirs[i])]

FirstExisting(e) ==
    LET c == Candidates(e)
        at == { i \in 1 .. Len(c) : c[i] \in e.exists }
    IN  IF at = {} THEN <<>> ELSE c[CHOOSE i \in at : \A j \in at : i <= j]

C8_LocateFirstExisting ==
    \A p \in Providers : DidOp(p, "locate") => cliPath[p] = FirstExisting(env[p])

\* what remains of C8: the directories of PATH that a ';' follows are searched
LocateUpToLastSemicolon ==
    \A p \in Providers :
        DidOp(p, "locate") /\ (env[p].PATH = <<>> \/ env[p].PATH[Len(env[p].PATH)] = ";") =>
            cliPath[p] = FirstExisting(env[p])

(***************************************************************************)
(* C9: after a miss with the renderer found, GenerateThumbnail reports     *)
(* success exactly when the process was launched, had exited when the wait *)
(* returned, and exited with status 0; a failed launch is reported without *)
(* a wait; an expired wait is reported as a failure whatever the exit      *)
(* status read after it.                                                   *)
(***************************************************************************)
C9_InvokeResult ==
    \A p \in Providers :
        Did(p, "locate", "found") =>
            /\ Did(p, "launch", "failed") => hr[p] = "E_FAIL" /\ ~DidOp(p, "wait")
            /\ DidOp(p, "close") =>
                   (hr[p] = "S_OK" <=> /\ Did(p, "launch", "ok")
                                       /\ Did(p, "wait", "exited")
                                       /\ Did(p, "exitcode", "zero"))
            /\ DidOp(p, "close") /\ Did(p, "wait", "expired") => hr[p] = "E_FAIL"
            /\ ~Did(p, "launch", "failed") /\ ~DidOp(p, "close") => hr[p] = "none"

\* the wait expired, the child then exited with status 0 before its exit code was
\* read, and the failure has been reported
C9_Witness ==
    \E p \in Providers :
        /\ Did(p, "locate", "found") /\ Did(p, "wait", "expired")
        /\ Did(p, "exitcode", "zero") /\ DidOp(p, "close")
        /\ exitCode[p] = 0 /\ hr[p] = "E_FAIL"

(***************************************************************************)
(* C10: a call whose wait expired returns the placeholder, having waited   *)
(* once.                                                                   *)
(***************************************************************************)
C10_ExpiredWaitReturnsPlaceholder ==
    \A p \in Providers :
        Returning(p) /\ Did(p, "wait", "expired") =>
            /\ ret[p] = "S_OK" /\ phbmp[p] = PlaceholderImage(cx[p])
            /\ Times(p, "wait") = 1

\* what remains of C10 when the conversion of the placeholder may fail: no call
\* waits twice, and under FairSpec every call returns
WaitsAtMostOnce == \A p \in Providers : Times(p, "wait") <= 1

EveryCallReturns == \A p \in Providers : (pc[p] \notin {"idle", "none"}) ~> Returning(p)


(***************************************************************************)
(* The renderer gets installed between two calls: the first call of the    *)
(* provider finds no renderer anywhere, every later call finds one in the  *)
(* directory of PATH.  Everything else is as in Next.                      *)
(***************************************************************************)
NoRendererEnv == [exists |-> {}, PATH |-> <<"d", ";">>]
InstalledEnv == [exists |-> {ExeIn(<<"d">>)}, PATH |-> <<"d", ";">>]
EnvOfCall(n) == IF n <= 1 THEN NoRendererEnv ELSE InstalledEnv

NextInstall ==
    \/ \E path \in SamplePaths : Initialize("p1", path)
    \/ \E n \in SampleSizes : GetThumbnail("p1", n)
    \/ \E created \in BOOLEAN : CreateCacheDir("p1", created)
    \/ \E r \in SampleTimes \cup {NoFileInfo} : ReadIdentity("p1", r)
    \/ Lookup("p1")
    \/ Locate("p1", EnvOfCall(nreq))
    \/ \E ok \in BOOLEAN : Launch("p1", ok)
    \/ Wait("p1")
    \/ GetExitCode("p1")
    \/ CloseAndReport("p1")
    \/ \E converted \in BOOLEAN : LoadBitmap("p1", converted)
    \/ \E converted \in BOOLEAN : GeneratePlaceholder("p1", converted)
    \/ Return("p1")
    \/ \E asImage \in BOOLEAN : ChildWrite("p1", asImage)
    \/ \E code \in ExitCodes : ChildExit("p1", code)
    \/ \E o \in orphans, asImage \in BOOLEAN : OrphanWrite(o, asImage)
    \/ \E o \in orphans : OrphanExit(o)

SpecInstall == Init /\ [][NextInstall]_vars

(***************************************************************************)
(* The image the renderer launched by the current call of p writes.        *)
(***************************************************************************)
OwnRender(p) == FileImage([src |-> m_filePath[p], ft |-> fileInfo[p], size |-> cx[p]])

(***************************************************************************)
(* C11: a call that ends in the placeholder because no renderer was found  *)
(* leaves no file at its cache location, so that a later call, made once a *)
(* renderer is installed that writes a valid image and exits 0, misses,    *)
(* invokes it and returns the decoded renderer output, not the placeholder.*)
(***************************************************************************)
C11_RenderedAfterInstall ==
    \A p \in Providers :
        /\ (nreq = 1 /\ Returning(p) /\ Did(p, "locate", "notfound"))
               => outPath[p] \notin DOMAIN cache
        /\ nreq = 2 => ~Did(p, "lookup", "hit")
        /\ (nreq >= 2 /\ Returning(p) /\ Did(p, "launch", "ok") /\ Did(p, "wait", "exited")
              /\ Did(p, "exitcode", "zero") /\ Did(p, "decode", "ok"))
               => ret[p] = "S_OK" /\ phbmp[p] = OwnRender(p)

(***************************************************************************)
(* What holds of that later call: it never hits, never falls back to the   *)
(* placeholder, and the only bitmap it can return is the renderer output.  *)
(***************************************************************************)
NoPlaceholderAfterInstall ==
    \A p \in Providers :
        /\ (nreq = 1 /\ Returning(p) /\ Did(p, "locate", "notfound"))
               => outPath[p] \notin DOMAIN cache
        /\ nreq = 2 => ~Did(p, "lookup", "hit")
        /\ (nreq >= 2 /\ Returning(p) /\ Did(p, "launch", "ok") /\ Did(p, "wait", "exited")
              /\ Did(p, "exitcode", "zero") /\ Did(p, "decode", "ok"))
               => /\ ~DidOp(p, "placeholder")
                  /\ phbmp[p] \in {NullBitmap, OwnRender(p)}
                  /\ ret[p] = "E_FAIL" <=> Did(p, "convert", "failed")


(***************************************************************************)
(* Dimensions of a bitmap handed to the caller.  The placeholder is drawn  *)
(* by GeneratePlaceholder.  A decoded file has the dimensions of the file; *)
(* the renderer writes a square image of the size of its command line.     *)
(***************************************************************************)
ImageWidth(img) == IF img.kind = "placeholder" THEN img.width ELSE img.content.size
ImageHeight(img) == IF img.kind = "placeholder" THEN img.height ELSE img.content.size

SharedFile == <<"x", "\\", "a">>
SharedTime == [dwLowDateTime |-> 1, dwHighDateTime |-> 0]
SharedSize == 12

RendererDone(proc) == proc.dest \in DOMAIN cache /\ cache[proc.dest] = Png(proc)

ChildExitDone(p) ==
    /\ pi[p].proc.status = "running"
    /\ RendererDone(pi[p].proc)
    /\ ChildExit(p, 0)

OrphanExitDone(o) == RendererDone(o) /\ OrphanExit(o)

NextConcurrent ==
    \/ \E p \in Providers : Initialize(p, SharedFile)
    \/ \E p \in Providers : GetThumbnail(p, SharedSize)
    \/ \E p \in Providers, created \in BOOLEAN : CreateCacheDir(p, created)
    \/ \E p \in Providers, r \in {SharedTime, NoFileInfo} : ReadIdentity(p, r)
    \/ \E p \in Providers : Lookup(p)
    \/ \E p \in Providers : Locate(p, InstalledEnv)
    \/ \E p \in Providers : Launch(p, TRUE)
    \/ \E p \in Providers : Wait(p)
    \/ \E p \in Providers : GetExitCode(p)
    \/ \E p \in Providers : CloseAndReport(p)
    \/ \E p \in Providers, converted \in BOOLEAN : LoadBitmap(p, converted)
    \/ \E p \in Providers, converted \in BOOLEAN : GeneratePlaceholder(p, converted)
    \/ \E p \in Providers : Return(p)
    \/ \E p \in Providers : ChildWrite(p, TRUE)
    \/ \E p \in Providers : ChildExitDone(p)
    \/ \E o \in orphans : OrphanWrite(o, TRUE)
    \/ \E o \in orphans : OrphanExitDone(o)

SpecConcurrent == InitOf(Providers) /\ [][NextConcurrent]_vars

(***************************************************************************)
(* C13: with no locking across calls, in every interleaving of calls for   *)
(* the same key, served by a renderer that writes atomically and exits 0   *)
(* (within the wait), every call returns the rendered image: never an      *)
(* error, never a corrupt image, though several calls may miss and invoke  *)
(* the renderer redundantly.                                               *)
(***************************************************************************)
C13_ConcurrentCallsRendered ==
    \A p \in Providers :
        (Returning(p) /\ Did(p, "identity", "ok") /\ ~Did(p, "wait", "expired"))
            => ret[p] = "S_OK" /\ phbmp[p] = OwnRender(p)

(***************************************************************************)
(* What holds of those calls: the file they decode is the complete         *)
(* rendering, none of them falls back to the placeholder, and the only     *)
(* error is that of a failed conversion.                                   *)
(***************************************************************************)
ConcurrentCallsDecodeRendering ==
    \A p \in Providers :
        (Returning(p) /\ Did(p, "identity", "ok") /\ ~Did(p, "wait", "expired"))
            => /\ Did(p, "decode", "ok")
               /\ ~DidOp(p, "placeholder")
               /\ phbmp[p] \in {NullBitmap, OwnRender(p)}
               /\ ret[p] = "E_FAIL" <=> Did(p, "convert", "failed")

(***************************************************************************)
(* Two calls for the key are in flight with a renderer each.               *)
(***************************************************************************)
RedundantInvocations ==
    \E p, q \in Providers :
        /\ p # q
        /\ pi[p].proc # NoProc /\ pi[q].proc # NoProc
        /\ pi[p].proc.dest = pi[q].proc.dest


(***************************************************************************)
(* No renderer invocation succeeds: every renderer started either exits    *)
(* with a nonzero status or is still running when the wait expires.  It    *)
(* may have written its destination before.  Everything else is as in Next.*)
(***************************************************************************)
FailingExitCodes == ExitCodes \ {0}

NextFailing ==
    \/ \E path \in SamplePaths : Initialize("p1", path)
    \/ \E n \in SampleSizes : GetThumbnail("p1", n)
    \/ \E created \in BOOLEAN : CreateCacheDir("p1", created)
    \/ \E r \in SampleTimes \cup {NoFileInfo} : ReadIdentity("p1", r)
    \/ Lookup("p1")
    \/ \E e \in SampleEnvs : Locate("p1", e)
    \/ \E ok \in BOOLEAN : Launch("p1", ok)
    \/ Wait("p1")
    \/ GetExitCode("p1")
    \/ CloseAndReport("p1")
    \/ \E converted \in BOOLEAN : LoadBitmap("p1", converted)
    \/ \E converted \in BOOLEAN : GeneratePlaceholder("p1", converted)
    \/ Return("p1")
    \/ \E asImage \in BOOLEAN : ChildWrite("p1", asImage)
    \/ \E code \in FailingExitCodes : ChildExit("p1", code)
    \/ \E o \in orphans, asImage \in BOOLEAN : OrphanWrite(o, asImage)
    \/ \E o \in orphans : OrphanExit(o)

SpecFailing == Init /\ [][NextFailing]_vars

(***************************************************************************)
(* C14: every file a lookup can hit was created by a renderer invocation   *)
(* that succeeded (exit 0 within the wait); a file left by a renderer that *)
(* exited nonzero, or written by a child still running after the wait      *)
(* expired, is never served as a hit to a later call.  Where no invocation *)
(* succeeds, no lookup hits.                                               *)
(***************************************************************************)
C14_HitsOnlySuccessfulRenders ==
    \A p \in Providers : ~Did(p, "lookup", "hit")

(***************************************************************************)
(* In those runs no invocation is reported as a success: every hit is on a *)
(* file of a failed invocation.                                            *)
(***************************************************************************)
NoInvocationSucceeds ==
    \A p \in Providers : Did(p, "launch", "ok") => hr[p] # "S_OK"


(***************************************************************************)
(* The steps of one call, in the order of the fallback chain.              *)
(***************************************************************************)
StepOrder == <<"identity", "lookup", "locate", "launch", "wait", "placeholder">>
StepIndex(op) ==
    CASE op = "identity" -> 1 [] op = "lookup" -> 2 [] op = "locate" -> 3
      [] op = "launch" -> 4 [] op = "wait" -> 5 [] op = "placeholder" -> 6
      [] OTHER -> 0
IsStep(op) == StepIndex(op) > 0

C16_DirectoryOnlyOnInvoke ==
    \A p \in Providers :
        /\ (Did(p, "identity", "failed") \/ Did(p, "lookup", "hit")
              \/ Did(p, "locate", "notfound"))
               => ~Did(p, "mkdir", "created")
        /\ (Returning(p) /\ Did(p, "mkdir", "created"))
               => Did(p, "lookup", "miss") /\ Did(p, "locate", "found")

(***************************************************************************)
(* What holds: the steps of the call itself never write a file of the      *)
(* cache, and create the directory in their first step only.               *)
(***************************************************************************)
CallWritesNoFile ==
    [][\A p \in Providers :
          /\ Running(p) => cache' = cache
          /\ (Running(p) /\ dirExists' # dirExists) => pc[p] = "mkdir"]_vars


(***************************************************************************)
(* C17: when the cache directory cannot be created, the lookup reports a   *)
(* miss and the call goes on down the miss path: renderer location, then   *)
(* launch, wait and decode, else the placeholder.  The directory failure   *)
(* stops no call and is not what a call returns: the only error returned   *)
(* is that of a failed bitmap conversion.                                  *)
(***************************************************************************)
C17_DirectoryFailureIsAMiss ==
    \A p \in Providers :
        Did(p, "mkdir", "failed") =>
            /\ pc[p] # "attrs" => DidOp(p, "identity")
            /\ (Did(p, "identity", "ok") /\ pc[p] # "exists")
                   => Did(p, "lookup", "miss")
            /\ (Did(p, "lookup", "miss") /\ pc[p] # "find") => DidOp(p, "locate")
            /\ (Did(p, "locate", "found") /\ pc[p] # "launch") => DidOp(p, "launch")
            /\ Returning(p) =>
                   /\ DidOp(p, "decode") \/ DidOp(p, "placeholder")
                   /\ ret[p] = "E_FAIL"
                          => Did(p, "convert", "failed") \/ Did(p, "placeholder", "failed")

C17_Witness ==
    \E p \in Providers :
        /\ Returning(p)
        /\ Did(p, "mkdir", "failed")
        /\ Did(p, "lookup", "miss")
        /\ Did(p, "launch", "ok")
        /\ Did(p, "decode", "failed")
        /\ Did(p, "placeholder", "ok")
        /\ ret[p] = "S_OK"


(***************************************************************************)
(* The placeholder on its own: calls of every size from 1 to MaxCx on a    *)
(* provider whose file cannot be read, which go straight to                *)
(* GeneratePlaceholder.                                                    *)
(***************************************************************************)
NextPlaceholder ==
    \/ \E n \in 1 .. MaxCx : GetThumbnail("p1", n)
    \/ \E created \in BOOLEAN : CreateCacheDir("p1", created)
    \/ ReadIdentity("p1", NoFileInfo)
    \/ \E converted \in BOOLEAN : GeneratePlaceholder("p1", converted)
    \/ Return("p1")

SpecPlaceholder == Init /\ [][NextPlaceholder]_vars

(***************************************************************************)
(* C18: for every size >= 1 the placeholder is an image of size x size     *)
(* whose circle is centered with a margin of size/4 on each side and has a *)
(* diameter of exactly half of size: 2 * diameter = size.                  *)
(***************************************************************************)
C18_CircleHalfOfSize ==
    \A p \in Providers :
        phbmp[p].kind = "placeholder" =>
            /\ phbmp[p].width = cx[p] /\ phbmp[p].height = cx[p]
            /\ phbmp[p].margin = cx[p] \div 4
            /\ 2 * phbmp[p].diameter = cx[p]

(***************************************************************************)
(* C18, amended: for every size >= 1 the placeholder is an image of        *)
(* size x size whose circle is centered with a margin of size/4 rounded    *)
(* down on each side, and has the diameter size - 2 * margin, so that      *)
(* 2 * diameter = size + (size mod 4): exactly half of size when size is a *)
(* multiple of 4, more than half otherwise.                                *)
(***************************************************************************)
C18_CircleGeometry ==
    \A p \in Providers :
        phbmp[p].kind = "placeholder" =>
            /\ phbmp[p].width = cx[p] /\ phbmp[p].height = cx[p]
            /\ phbmp[p].margin = cx[p] \div 4
            /\ phbmp[p].margin + phbmp[p].diameter + phbmp[p].margin = cx[p]
            /\ 2 * phbmp[p].diameter = cx[p] + (cx[p] % 4)
            /\ (cx[p] % 4 = 0) <=> (2 * phbmp[p].diameter = cx[p])

C18_Witness ==
    \E p \in Providers :
        /\ Returning(p)
        /\ phbmp[p].kind = "placeholder"
        /\ cx[p] % 4 = 3
        /\ 2 * phbmp[p].diameter > cx[p]


(***************************************************************************)
(* Handles of the child process of the current call of p.                  *)
(***************************************************************************)
Closes(p, h) ==
    Cardinality({ i \in 1 .. Len(trace[p]) : trace[p][i] = Ev("close", h) })
FirstClose(p) ==
    CHOOSE i \in 1 .. Len(trace[p]) :
        /\ trace[p][i].op = "close"
        /\ \A j \in 1 .. Len(trace[p]) : trace[p][j].op = "close" => i <= j
GenerateThumbnailReturned(p) == pc[p] \in {"load", "placeholder", "done"}

(***************************************************************************)
(* C19: every successful launch is followed, before GenerateThumbnail      *)
(* returns and on every path (child exited or wait expired, exit code zero *)
(* or not), by exactly one close of the process handle and exactly one of  *)
(* the thread handle; no handle is closed when the launch failed or was    *)
(* not attempted; no handle is used (waited on, queried) after its close.  *)
(***************************************************************************)
C19_HandlesClosedOnce ==
    \A p \in Providers :
        /\ Closes(p, "hProcess") <= 1 /\ Closes(p, "hThread") <= 1
        /\ (GenerateThumbnailReturned(p) /\ Did(p, "launch", "ok"))
               => /\ Closes(p, "hProcess") = 1 /\ Closes(p, "hThread") = 1
                  /\ pi[p].hProcess = "closed" /\ pi[p].hThread = "closed"
        /\ ~Did(p, "launch", "ok")
               => /\ ~DidOp(p, "close")
                  /\ pi[p].hProcess = "none" /\ pi[p].hThread = "none"
        /\ DidOp(p, "close")
               => \A i \in 1 .. Len(trace[p]) :
                      trace[p][i].op \in {"wait", "exitcode"} => i < FirstClose(p)
        /\ pc[p] \in {"wait", "exitcode", "close"}
               => pi[p].hProcess = "open" /\ pi[p].hThread = "open"

C19_Witness ==
    \E p \in Providers :
        /\ Returning(p)
        /\ Did(p, "launch", "ok")
        /\ Did(p, "wait", "expired")
        /\ Closes(p, "hProcess") = 1 /\ Closes(p, "hThread") = 1
        /\ pi[p].hProcess = "closed" /\ pi[p].hThread = "closed"


(***************************************************************************)
(* Object lifetime: the reference counting of WireTunerThumbnailProvider   *)
(* (lines 55-84) and WireTunerThumbnailProviderFactory (lines 266-289),    *)
(* and the two places that construct objects, IClassFactory::CreateInstance*)
(* (lines 292-301) and DllGetClassObject (lines 314-322).  Client threads  *)
(* call AddRef, Release and QueryInterface on the objects they hold a      *)
(* reference to.  InterlockedIncrement and InterlockedDecrement are atomic;*)
(* Release is two steps, the decrement and the test of the value it        *)
(* returned.                                                               *)
(***************************************************************************)
callVars == <<locals, cache, dirExists, orphans, nreq>>

FactoryOrder == <<"f1">>
ProviderOrder == <<"p1", "p2">>

\* the object a "new" expression constructs: the first one not constructed yet
CanNew(order) == \E k \in 1 .. Len(order) : life[order[k]] = "none"
NewOf(order) ==
    order[CHOOSE k \in 1 .. Len(order) :
              /\ life[order[k]] = "none"
              /\ \A j \in 1 .. k - 1 : life[order[j]] # "none"]

\* Release, lines 78-84 and 283-289: "if (count == 0) delete this"
ReleaseDeletes_AtOne(count) == count <= 1

ReleaseDeletes(count) == count = 0

\* position of a provider that is constructed, destroyed
PcAfter(o, destroyed) ==
    IF o \in Providers THEN [pc EXCEPT ![o] = IF destroyed THEN "none" ELSE "idle"] ELSE pc

(***************************************************************************)
(* "x = new T(); hr = x->QueryInterface(riid, ppv); x->Release();          *)
(* return hr;" on thread t: the constructor sets the count to 1, a         *)
(* QueryInterface that knows riid adds a reference and stores the pointer  *)
(* in *ppv, which the caller then holds; Release drops the reference of    *)
(* the constructor.  No other thread knows the object before the return.   *)
(***************************************************************************)
NewQueryRelease(t, o, riidOk) ==
    LET constructed == 1
        queried == IF riidOk THEN constructed + 1 ELSE constructed
        count == queried - 1
    IN  /\ m_refCount' = [m_refCount EXCEPT ![o] = count]
        /\ life' = [life EXCEPT ![o] = IF ReleaseDeletes(count) THEN "deleted" ELSE "alive"]
        /\ deletes' = [deletes EXCEPT ![o] = IF ReleaseDeletes(count) THEN @ + 1 ELSE @]
        /\ held' = [held EXCEPT ![t][o] = IF riidOk THEN @ + 1 ELSE @]
        /\ pc' = PcAfter(o, ReleaseDeletes(count))

(***************************************************************************)
(* DllGetClassObject, lines 314-322.                                       *)
(***************************************************************************)
DllGetClassObject(t, clsidOk, riidOk) ==
    /\ rel[t] = NoRelease
    /\ IF clsidOk
       THEN /\ CanNew(FactoryOrder)
            /\ NewQueryRelease(t, NewOf(FactoryOrder), riidOk)
       ELSE UNCHANGED <<pc, m_refCount, life, deletes, held>>
    /\ UNCHANGED <<callVars, rel>>

(***************************************************************************)
(* IClassFactory::CreateInstance, lines 292-301, called by a thread that   *)
(* holds a reference to factory f.                                         *)
(***************************************************************************)
CreateInstance(t, f, outer, riidOk) ==
    /\ rel[t] = NoRelease
    /\ held[t][f] > 0
    /\ IF outer
       THEN UNCHANGED <<pc, m_refCount, life, deletes, held>>
       ELSE /\ CanNew(ProviderOrder)
            /\ NewQueryRelease(t, NewOf(ProviderOrder), riidOk)
    /\ UNCHANGED <<callVars, rel>>

(***************************************************************************)
(* QueryInterface, lines 65-72 and 269-277, by a thread that holds a       *)
(* reference: a known riid adds a reference, which the caller holds.       *)
(***************************************************************************)
QueryInterface(t, o, riidOk) ==
    /\ rel[t] = NoRelease
    /\ held[t][o] > 0
    /\ IF riidOk
       THEN /\ m_refCount[o] < MaxRefs
            /\ m_refCount' = [m_refCount EXCEPT ![o] = @ + 1]
            /\ held' = [held EXCEPT ![t][o] = @ + 1]
       ELSE UNCHANGED <<m_refCount, held>>
    /\ UNCHANGED <<pc, callVars, life, deletes, rel>>

(***************************************************************************)
(* AddRef, lines 74-76 and 279-281, by a thread that holds a reference;    *)
(* the new reference is kept by thread u (the caller or a thread it hands  *)
(* the pointer to).                                                        *)
(***************************************************************************)
AddRef(t, o, u) ==
    /\ rel[t] = NoRelease
    /\ held[t][o] > 0
    /\ m_refCount[o] < MaxRefs
    /\ m_refCount' = [m_refCount EXCEPT ![o] = @ + 1]
    /\ held' = [held EXCEPT ![u][o] = @ + 1]
    /\ UNCHANGED <<pc, callVars, life, deletes, rel>>

(***************************************************************************)
(* Release, lines 78-84 and 283-289, by a thread that gives up one of its  *)
(* references: InterlockedDecrement, then the test and the delete.         *)
(***************************************************************************)
ReleaseDecrement(t, o) ==
    /\ rel[t] = NoRelease
    /\ held[t][o] > 0
    /\ m_refCount' = [m_refCount EXCEPT ![o] = @ - 1]
    /\ held' = [held EXCEPT ![t][o] = @ - 1]
    /\ rel' = [rel EXCEPT ![t] = [obj |-> o, count |-> m_refCount[o] - 1]]
    /\ UNCHANGED <<pc, callVars, life, deletes>>

ReleaseFinish(t) ==
    /\ rel[t] # NoRelease
    /\ rel' = [rel EXCEPT ![t] = NoRelease]
    /\ IF ReleaseDeletes(rel[t].count)
       THEN /\ life' = [life EXCEPT ![rel[t].obj] = "deleted"]
            /\ deletes' = [deletes EXCEPT ![rel[t].obj] = @ + 1]
            /\ pc' = PcAfter(rel[t].obj, TRUE)
       ELSE UNCHANGED <<pc, life, deletes>>
    /\ UNCHANGED <<callVars, m_refCount, held>>

NextCom ==
    \/ \E t \in Clients, clsidOk \in BOOLEAN, riidOk \in BOOLEAN :
           DllGetClassObject(t, clsidOk, riidOk)
    \/ \E t \in Clients, f \in Factories, outer \in BOOLEAN, riidOk \in BOOLEAN :
           CreateInstance(t, f, outer, riidOk)
    \/ \E t \in Clients, o \in Objects, riidOk \in BOOLEAN : QueryInterface(t, o, riidOk)
    \/ \E t \in Clients, o \in Objects, u \in Clients : AddRef(t, o, u)
    \/ \E t \in Clients, o \in Objects : ReleaseDecrement(t, o)
    \/ \E t \in Clients : ReleaseFinish(t)

SpecCom == InitOf({}) /\ [][NextCom]_vars


(***************************************************************************)
(* References to object o held by the threads of set ts.                   *)
(***************************************************************************)
RECURSIVE HeldBy(_, _)
HeldBy(ts, o) ==
    IF ts = {} THEN 0
    ELSE LET t == CHOOSE x \in ts : TRUE IN held[t][o] + HeldBy(ts \ {t}, o)

\* the threads whose Release took the count of o to 0 and has not tested it yet
Destroying(o) == { t \in Clients : rel[t] = [obj |-> o, count |-> 0] }

Lifetime ==
    \A o \in Objects :
        /\ deletes[o] <= 1
        /\ deletes[o] = 1 <=> life[o] = "deleted"
        /\ life[o] = "alive" => m_refCount[o] = HeldBy(Clients, o)
        /\ life[o] # "alive" => m_refCount[o] = 0 /\ HeldBy(Clients, o) = 0
        /\ (life[o] = "alive" /\ m_refCount[o] = 0) <=> Cardinality(Destroying(o)) = 1
        /\ Cardinality(Destroying(o)) <= 1
        /\ o \in Providers => (pc[o] = "none" <=> life[o] # "alive")

\* what a caller has after "new; QueryInterface; Release" constructed o for it
HandedOut(t, o, riidOk) ==
    IF riidOk
    THEN /\ life'[o] = "alive" /\ deletes'[o] = 0
         /\ m_refCount'[o] = 1
         /\ held'[t][o] = 1
         /\ \A u \in Clients \ {t} : held'[u][o] = 0
    ELSE /\ life'[o] = "deleted" /\ deletes'[o] = 1
         /\ m_refCount'[o] = 0
         /\ \A u \in Clients : held'[u][o] = 0

Creation ==
    /\ \A t \in Clients, riidOk \in BOOLEAN :
           /\ DllGetClassObject(t, TRUE, riidOk)
                  => HandedOut(t, NewOf(FactoryOrder), riidOk)
           /\ DllGetClassObject(t, FALSE, riidOk) => UNCHANGED <<life, held, m_refCount>>
    /\ \A t \in Clients, f \in Factories, riidOk \in BOOLEAN :
           /\ CreateInstance(t, f, FALSE, riidOk)
                  => HandedOut(t, NewOf(ProviderOrder), riidOk)
           /\ CreateInstance(t, f, TRUE, riidOk) => UNCHANGED <<life, held, m_refCount>>

(***************************************************************************)
(* C20: for any interleaving of AddRef and Release by threads that hold a  *)
(* reference, a provider or factory object is destroyed exactly once,      *)
(* exactly when its reference count reaches 0, and never while a thread    *)
(* still holds a reference; CreateInstance and DllGetClassObject hand the  *)
(* caller exactly one reference when QueryInterface succeeds and destroy   *)
(* the object they constructed when it fails.                              *)
(***************************************************************************)
C20_ReferenceCounting == []Lifetime /\ [][Creation]_vars

(***************************************************************************)
(* Two threads are inside Release of the same object, one having taken the *)
(* count to 1 and the other to 0, neither having tested its value yet.     *)
(***************************************************************************)
C20_Witness ==
    \E o \in Objects, t, u \in Clients :
        /\ life[o] = "alive"
        /\ rel[t] = [obj |-> o, count |-> 1]
        /\ rel[u] = [obj |-> o, count |-> 0]
        /\ \E q \in Objects \ {o} : life[q] = "deleted"

====
